---- MODULE Spec2Model ----
(***************************************************************************)
(* Model of terraform-provider-revos: the semantic JSON comparator         *)
(* (jsonEqual / deepEqual), the data plan modifier, and the overlay        *)
(* resource's Create / Read / Update / Delete handlers run against a       *)
(* remote overlay API through the HTTP client.                             *)
(*                                                                         *)
(* JSON TEXT is a token tree that keeps what the text keeps (the order of  *)
(* an object's members, repeated keys, the spelling of a number):          *)
(*     <<"lit", t>>                 a scalar token with text t             *)
(*     <<"str", s>>                 a string token with content s          *)
(*     <<"arr", <<d1, ..., dn>>>>   an array                               *)
(*     <<"obj", <<<<k1, d1>>, ...>>>>  an object, members in text order    *)
(* A DECODED value is what encoding/json yields for interface{}:           *)
(*     <<"nil">>  <<"bool", b>>  <<"number", n>>  <<"string", s>>          *)
(*     <<"slice", <<v1, ..., vn>>>>   <<"map", [key |-> value]>>           *)
(***************************************************************************)
EXTENDS Integers, Sequences, FiniteSets, TLC

\* ------------------------------------------------------------------------
\* Bounds of the model
\* ------------------------------------------------------------------------

\* The largest JSON document compared, in nodes (values) of its token tree.
MaxNodes == 4

\* ------------------------------------------------------------------------
\* JSON text
\* ------------------------------------------------------------------------

\* Object keys of the documents compared.
Keys == {"a", "b"}

\* Scalar tokens. "1" and "1.0" spell the same number; "1e999" is a
\* well-formed number outside float64; "not json" and "" are no JSON at all.
Lits == {"1", "1.0", "2", "1e999", "null", "true", "false", "not json", ""}

Lit(t) == <<"lit", t>>
Str(s) == <<"str", s>>
Arr(es) == <<"arr", es>>
Obj(ms) == <<"obj", ms>>

\* The scalars a generated document may be.
RootLeaves == {Lit(t) : t \in Lits} \cup {Str("s")}

\* The scalars used inside the generated arrays and objects.
InnerLeaves == {Lit("1"), Lit("2")}

RECURSIVE DocsOfSize(_, _)
RECURSIVE Forests(_)
RECURSIVE MemberForests(_)

\* The documents of exactly n nodes; leaves are the scalars allowed at the root.
DocsOfSize(n, leaves) ==
    IF n = 1
    THEN leaves \cup {Arr(<<>>), Obj(<<>>)}
    ELSE {Arr(f) : f \in Forests(n - 1)} \cup {Obj(f) : f \in MemberForests(n - 1)}

\* The sequences of documents of n nodes in all.
Forests(n) ==
    IF n = 0
    THEN {<<>>}
    ELSE UNION {{<<d>> \o f : d \in DocsOfSize(k, InnerLeaves), f \in Forests(n - k)} : k \in 1..n}

\* The sequences of object members whose values have n nodes in all.
MemberForests(n) ==
    IF n = 0
    THEN {<<>>}
    ELSE UNION {{<<<<key, d>>>> \o f : key \in Keys, d \in DocsOfSize(k, InnerLeaves), f \in MemberForests(n - k)} : k \in 1..n}

\* Documents added to the generated ones: the other scalar tokens inside
\* containers, and the shapes of TestJsonEqual one node above the bound.
ExtraDocs ==
    {Arr(<<Lit("1"), Lit("1.0")>>), Arr(<<Lit("1.0"), Lit("1")>>),
     Arr(<<Lit("not json")>>), Arr(<<Lit("1e999")>>), Arr(<<Lit("null"), Lit("1")>>),
     Obj(<<<<"a", Lit("1.0")>>>>), Obj(<<<<"a", Lit("null")>>>>),
     Obj(<<<<"a", Str("s")>>>>), Obj(<<<<"a", Lit("true")>>>>),
     Obj(<<<<"a", Lit("not json")>>>>), Obj(<<<<"a", Lit("1e999")>>, <<"b", Lit("1")>>>>),
     Obj(<<<<"a", Arr(<<Lit("1"), Lit("2")>>)>>, <<"a", Lit("1")>>>>),
     Obj(<<<<"a", Obj(<<<<"a", Lit("1")>>, <<"b", Lit("2")>>>>)>>, <<"b", Lit("1")>>>>)}

\* Every document compared.
Docs == UNION {DocsOfSize(n, RootLeaves) : n \in 1..MaxNodes} \cup ExtraDocs

\* The documents every document is compared with: the small ones and the
\* added ones.
Probes == DocsOfSize(1, RootLeaves) \cup DocsOfSize(2, RootLeaves) \cup ExtraDocs

\* ------------------------------------------------------------------------
\* encoding/json: json.Unmarshal
\* ------------------------------------------------------------------------

\* The scanner's verdict on one scalar token (json.checkValid).
LitSyntaxOk(t) == t \in {"1", "1.0", "2", "1e999", "null", "true", "false"}

\* Whether the token is a number literal.
LitIsNumber(t) == t \in {"1", "1.0", "2", "1e999"}

\* strconv.ParseFloat(t, 64) succeeds: the number is within float64's range.
ParseFloatOk(t) == t # "1e999"

\* The float64 a number literal decodes to.
ParseFloat(t) == CASE t = "1" -> 1 [] t = "1.0" -> 1 [] t = "2" -> 2 [] OTHER -> 0

\* The value a scalar token decodes to (literalInterface).
LitValue(t) ==
    CASE t = "null" -> <<"nil">>
      [] t = "true" -> <<"bool", TRUE>>
      [] t = "false" -> <<"bool", FALSE>>
      [] OTHER -> <<"number", ParseFloat(t)>>

RECURSIVE SyntaxOk(_)
\* json.checkValid: the text is well-formed JSON.
SyntaxOk(d) ==
    CASE d[1] = "lit" -> LitSyntaxOk(d[2])
      [] d[1] = "str" -> TRUE
      [] d[1] = "arr" -> \A i \in 1..Len(d[2]) : SyntaxOk(d[2][i])
      [] OTHER -> \A i \in 1..Len(d[2]) : SyntaxOk(d[2][i][2])

RECURSIVE NumbersOk(_)
\* Every number of the text converts to a float64 (convertNumber).
NumbersOk(d) ==
    CASE d[1] = "lit" -> LitIsNumber(d[2]) => ParseFloatOk(d[2])
      [] d[1] = "str" -> TRUE
      [] d[1] = "arr" -> \A i \in 1..Len(d[2]) : NumbersOk(d[2][i])
      [] OTHER -> \A i \in 1..Len(d[2]) : NumbersOk(d[2][i][2])

\* The index of the last member of ms with key k: objectInterface stores the
\* members in text order into a Go map, so a repeated key keeps its last value.
LastIndex(ms, k) == CHOOSE i \in 1..Len(ms) : ms[i][1] = k /\ \A j \in (i + 1)..Len(ms) : ms[j][1] # k

RECURSIVE Decode(_)
\* The value json.Unmarshal stores into an interface{}.
Decode(d) ==
    CASE d[1] = "lit" -> LitValue(d[2])
      [] d[1] = "str" -> <<"string", d[2]>>
      [] d[1] = "arr" -> <<"slice", [i \in 1..Len(d[2]) |-> Decode(d[2][i])]>>
      [] OTHER -> <<"map", [k \in {d[2][i][1] : i \in 1..Len(d[2])} |-> Decode(d[2][LastIndex(d[2], k)][2])]>>

\* json.Unmarshal([]byte(text), &v) with v an interface{} returns a nil error.
UnmarshalOk(d) == SyntaxOk(d) /\ NumbersOk(d)

\* json.Unmarshal([]byte(text), &raw) with raw a json.RawMessage returns a nil
\* error: the text is scanned and its bytes are kept, no number is converted.
RawMessageOk(d) == SyntaxOk(d)

\* ------------------------------------------------------------------------
\* The comparator
\* ------------------------------------------------------------------------

RECURSIVE deepEqual(_, _)

\* deepEqual comparing arrays as collections, whatever the order.
deepEqual_AnyOrder(a, b) ==
    CASE a[1] = "map" ->
            IF b[1] # "map" \/ Cardinality(DOMAIN a[2]) # Cardinality(DOMAIN b[2])
            THEN FALSE
            ELSE \A k \in DOMAIN a[2] : k \in DOMAIN b[2] /\ deepEqual(a[2][k], b[2][k])
      [] a[1] = "slice" ->
            IF b[1] # "slice" \/ Len(a[2]) # Len(b[2])
            THEN FALSE
            ELSE \A i \in 1..Len(a[2]) : \E j \in 1..Len(b[2]) : deepEqual(a[2][i], b[2][j])
      [] OTHER -> a[1] = b[1] /\ a = b

\* deepEqual without the comparison of the two objects' sizes.
deepEqual_NoLen(a, b) ==
    CASE a[1] = "map" ->
            IF b[1] # "map"
            THEN FALSE
            ELSE \A k \in DOMAIN a[2] : k \in DOMAIN b[2] /\ deepEqual(a[2][k], b[2][k])
      [] a[1] = "slice" ->
            IF b[1] # "slice" \/ Len(a[2]) # Len(b[2])
            THEN FALSE
            ELSE \A i \in 1..Len(a[2]) : deepEqual(a[2][i], b[2][i])
      [] OTHER -> a[1] = b[1] /\ a = b

\* deepEqual without the length test on arrays.
deepEqual_Prefix(a, b) ==
    CASE a[1] = "map" ->
            IF b[1] # "map" \/ Cardinality(DOMAIN a[2]) # Cardinality(DOMAIN b[2]) THEN FALSE
            ELSE \A key \in DOMAIN a[2] : key \in DOMAIN b[2] /\ deepEqual(a[2][key], b[2][key])
      [] a[1] = "slice" ->
            IF b[1] # "slice" THEN FALSE
            ELSE \A i \in 1..Len(a[2]) : i <= Len(b[2]) /\ deepEqual(a[2][i], b[2][i])
      [] OTHER -> a[1] = b[1] /\ a = b

\* deepEqual without its default case: scalars never compare equal.
deepEqual_NoDefault(a, b) ==
    CASE a[1] = "map" ->
            IF b[1] # "map" \/ Cardinality(DOMAIN a[2]) # Cardinality(DOMAIN b[2])
            THEN FALSE
            ELSE \A k \in DOMAIN a[2] : k \in DOMAIN b[2] /\ deepEqual(a[2][k], b[2][k])
      [] a[1] = "slice" ->
            IF b[1] # "slice" \/ Len(a[2]) # Len(b[2])
            THEN FALSE
            ELSE \A i \in 1..Len(a[2]) : deepEqual(a[2][i], b[2][i])
      [] OTHER -> FALSE

\* deepEqual recursively compares two decoded values.
deepEqual(a, b) ==
    CASE a[1] = "map" ->
            IF b[1] # "map" \/ Cardinality(DOMAIN a[2]) # Cardinality(DOMAIN b[2])
            THEN FALSE
            ELSE \A k \in DOMAIN a[2] : k \in DOMAIN b[2] /\ deepEqual(a[2][k], b[2][k])
      [] a[1] = "slice" ->
            IF b[1] # "slice" \/ Len(a[2]) # Len(b[2])
            THEN FALSE
            ELSE \A i \in 1..Len(a[2]) : deepEqual(a[2][i], b[2][i])
      [] OTHER -> a[1] = b[1] /\ a = b

\* jsonEqual comparing the raw texts.
jsonEqual_RawText(a, b) ==
    IF ~UnmarshalOk(a) THEN FALSE
    ELSE IF ~UnmarshalOk(b) THEN FALSE
    ELSE a = b

\* jsonEqual falling back to the raw texts when one does not parse.
jsonEqual_RawFallback(a, b) ==
    IF ~UnmarshalOk(a) \/ ~UnmarshalOk(b) THEN a = b
    ELSE deepEqual(Decode(a), Decode(b))

\* jsonEqual compares two JSON texts for semantic equality.
jsonEqual(a, b) ==
    IF ~UnmarshalOk(a) THEN FALSE
    ELSE IF ~UnmarshalOk(b) THEN FALSE
    ELSE deepEqual(Decode(a), Decode(b))

\* The two texts decode, and to the same value.
SameValue(x, y) == UnmarshalOk(x) /\ UnmarshalOk(y) /\ Decode(x) = Decode(y)

\* ------------------------------------------------------------------------
\* types.String of the plugin framework
\* ------------------------------------------------------------------------

Null == <<"null">>
Unknown == <<"unknown">>
Value(s) == <<"value", s>>

IsNull(v) == v[1] = "null"
IsUnknown(v) == v[1] = "unknown"

\* ValueString() of a string attribute: "" when the value is null or unknown.
ValueString(v) == IF v[1] = "value" THEN v[2] ELSE ""

\* ValueString() of the data attribute, read as JSON text: the empty text
\* when the value is null or unknown.
ValueText(v) == IF v[1] = "value" THEN v[2] ELSE Lit("")

\* ------------------------------------------------------------------------
\* The data plan modifier
\* ------------------------------------------------------------------------

\* PlanModifyString comparing the raw texts of state and config.
PlanModifyString_RawText(stateValue, configValue, planValue) ==
    IF IsNull(stateValue) THEN planValue
    ELSE IF IsNull(configValue) \/ IsUnknown(configValue) THEN planValue
    ELSE IF ValueText(stateValue) = ValueText(configValue) THEN stateValue
    ELSE planValue

\* jsonSemanticEqualModifier.PlanModifyString: the planned value it leaves in
\* resp.PlanValue, which starts as planValue.
PlanModifyString(stateValue, configValue, planValue) ==
    IF IsNull(stateValue) THEN planValue
    ELSE IF IsNull(configValue) \/ IsUnknown(configValue) THEN planValue
    ELSE IF jsonEqual(ValueText(stateValue), ValueText(configValue)) THEN stateValue
    ELSE planValue

\* ------------------------------------------------------------------------
\* The overlays and their data
\* ------------------------------------------------------------------------

\* Identifiers the remote API assigns.
Ids == {"ov1"}

\* Overlay names.
Names == {"n1", "n2"}

DataAB == Obj(<<<<"a", Lit("1")>>, <<"b", Lit("2")>>>>)
DataBA == Obj(<<<<"b", Lit("2")>>, <<"a", Lit("1")>>>>)
DataId == Obj(<<<<"id", Str("x")>>>>)
DataBad == Lit("not json")

\* The data texts a configuration may give.
PlanDataDocs == {DataAB, DataBA, DataId, DataBad}

\* The data texts the remote API may hold: JSON.
RemoteDataDocs == {d \in PlanDataDocs : SyntaxOk(d)}

\* The descriptions a configuration may give.
PlanDescriptions == {Null, Value("d")}

\* client.CubeOverlay with every field at its zero value.
ZeroOverlay ==
    [ID |-> "", Name |-> "", Description |-> "", OrganizationID |-> "",
     Data |-> Lit(""), CreatedBy |-> "", CreatedAt |-> "", UpdatedAt |-> ""]

\* ------------------------------------------------------------------------
\* The remote API (the environment)
\* ------------------------------------------------------------------------

NotFoundText == <<"N", "o", "t", " ", "F", "o", "u", "n", "d">>

\* The bodies of error responses.
ErrorTexts == {NotFoundText, <<>>}

Transport == [kind |-> "transport", status |-> 0, text |-> <<>>, body |-> Lit(""), shape |-> "none"]
HttpError(st, t) == [kind |-> "http", status |-> st, text |-> t, body |-> Lit(""), shape |-> "none"]
HttpOk(b, sh) == [kind |-> "http", status |-> 200, text |-> <<>>, body |-> b, shape |-> sh]

\* A success status with a body that is no JSON (an intermediary's page).
Garbage == HttpOk(Lit("not json"), "garbage")

\* What may go wrong with any request: no response, an error status, a body
\* that is no JSON.
Failures == {Transport, Garbage, HttpError(500, NotFoundText)}

\* The answer for an identifier that does not exist.
NotFound == {HttpError(404, t) : t \in ErrorTexts}

\* The overlay resource as the API serialises it.
OverlayBody(o) ==
    Obj(<<<<"id", Str(o.id)>>, <<"name", Str(o.name)>>, <<"description", Str(o.description)>>,
          <<"organizationId", Str(o.organizationId)>>, <<"data", o.data>>,
          <<"createdBy", Str(o.createdBy)>>, <<"createdAt", Str(o.createdAt)>>,
          <<"updatedAt", Str(o.updatedAt)>>>>)

\* The two shapes of a successful response: the resource, or {"data": resource}.
Succeeds(o) == {HttpOk(OverlayBody(o), "direct"), HttpOk(Obj(<<<<"data", OverlayBody(o)>>>>), "envelope")}

\* The texts the API may store for a submitted data blob: the blob, or the
\* same value serialised with another key order.
Stored(data) == {t \in RemoteDataDocs : t = data \/ SameValue(t, data)}

Present(rem, id) == id \in DOMAIN rem /\ rem[id] # <<>>

\* POST /cube-overlays: the exchanges (response, remote state after).
Post(rem, payload) ==
    {[resp |-> f, remote |-> rem] : f \in Failures}
    \cup UNION {UNION {{[resp |-> r, remote |-> [rem EXCEPT ![i] = <<o>>]] : r \in Succeeds(o)} :
                    o \in {[id |-> i, name |-> payload.Name, description |-> payload.Description,
                            organizationId |-> "org1", data |-> t, createdBy |-> "u1",
                            createdAt |-> "t1", updatedAt |-> "t1"] : t \in Stored(payload.Data)}} :
                i \in {j \in DOMAIN rem : rem[j] = <<>> /\ \A k \in DOMAIN rem : rem[k] = <<>> \/ rem[k][1].name # payload.Name}}

\* GET /cube-overlays/{id}.
Get(rem, id) ==
    {[resp |-> f, remote |-> rem] : f \in Failures}
    \cup (IF Present(rem, id)
          THEN {[resp |-> r, remote |-> rem] : r \in Succeeds(rem[id][1])}
          ELSE {[resp |-> r, remote |-> rem] : r \in NotFound})

\* PATCH /cube-overlays/{id}: a description left out of the payload is kept.
Patch(rem, id, payload) ==
    {[resp |-> f, remote |-> rem] : f \in Failures}
    \cup (IF Present(rem, id)
          THEN UNION {{[resp |-> r, remote |-> [rem EXCEPT ![id] = <<o>>]] : r \in Succeeds(o)} :
                    o \in {[rem[id][1] EXCEPT !.name = payload.Name,
                                             !.description = IF payload.Description = "" THEN @ ELSE payload.Description,
                                             !.data = t, !.updatedAt = "t2"] : t \in Stored(payload.Data)}}
          ELSE {[resp |-> r, remote |-> rem] : r \in NotFound})

RECURSIVE Listing(_, _)
\* The overlays the remote holds among ids, in one fixed order.
Listing(rem, ids) ==
    IF ids = {} THEN <<>>
    ELSE LET i == CHOOSE x \in ids : TRUE
         IN  (IF Present(rem, i) THEN <<OverlayBody(rem[i][1])>> ELSE <<>>) \o Listing(rem, ids \ {i})

\* GET /cube-overlays: the list, bare or in the envelope.
List(rem) ==
    {[resp |-> f, remote |-> rem] : f \in Failures}
    \cup {[resp |-> HttpOk(Arr(Listing(rem, DOMAIN rem)), "direct"), remote |-> rem],
          [resp |-> HttpOk(Obj(<<<<"data", Arr(Listing(rem, DOMAIN rem))>>>>), "envelope"), remote |-> rem]}

\* DELETE /cube-overlays/{id}.
Del(rem, id) ==
    {[resp |-> f, remote |-> rem] : f \in Failures}
    \cup (IF Present(rem, id)
          THEN {[resp |-> HttpOk(Lit("null"), "none"), remote |-> [rem EXCEPT ![id] = <<>>]]}
          ELSE {[resp |-> r, remote |-> rem] : r \in NotFound})

\* ------------------------------------------------------------------------
\* internal/client
\* ------------------------------------------------------------------------

\* A nil error; an error is the text of its message, character by character.
NoError == <<>>

DigitChar(d) == <<"0", "1", "2", "3", "4", "5", "6", "7", "8", "9">>[d + 1]

RECURSIVE Digits(_)
\* %d of a non-negative integer.
Digits(n) == IF n < 10 THEN <<DigitChar(n)>> ELSE Digits(n \div 10) \o <<DigitChar(n % 10)>>

\* fmt.Errorf("API error %d: %s", resp.StatusCode, string(respBody))
ApiError(status, text) ==
    <<"A", "P", "I", " ", "e", "r", "r", "o", "r", " ">> \o Digits(status) \o <<":", " ">> \o text

\* fmt.Errorf("request failed: %w", err), for a connection closed early.
RequestFailed ==
    <<"r", "e", "q", "u", "e", "s", "t", " ", "f", "a", "i", "l", "e", "d", ":", " ", "E", "O", "F">>

\* fmt.Errorf("failed to unmarshal overlay: %w", err), the cause cut short.
UnmarshalFailed ==
    <<"f", "a", "i", "l", "e", "d", " ", "t", "o", " ", "u", "n", "m", "a", "r", "s", "h", "a", "l", " ",
      "o", "v", "e", "r", "l", "a", "y", ":", " ", "i", "n", "v", "a", "l", "i", "d">>

\* Client.request without its test of the status code.
request_AnyStatus(resp) ==
    IF resp.kind = "transport" THEN [err |-> <<"r", "e", "q", "u", "e", "s", "t", " ", "f", "a", "i", "l", "e", "d">>, body |-> Lit("")]
    ELSE [err |-> <<>>, body |-> resp.body]

\* Client.request: the error and the body it returns for a response.
request(resp) ==
    IF resp.kind = "transport" THEN [err |-> RequestFailed, body |-> Lit("")]
    ELSE IF resp.status >= 400 THEN [err |-> ApiError(resp.status, resp.text), body |-> Lit("")]
    ELSE [err |-> NoError, body |-> resp.body]

\* The JSON keys of CubeOverlay's string fields.
StringKeys == {"id", "name", "description", "organizationId", "createdBy", "createdAt", "updatedAt"}

HasKey(ms, k) == \E i \in 1..Len(ms) : ms[i][1] = k

\* A member for a string field holds something that is no string and no null.
FieldErr(ms, k) == \E i \in 1..Len(ms) : ms[i][1] = k /\ ms[i][2][1] # "str" /\ ms[i][2] # Lit("null")

\* The string field after the members are decoded in order.
FieldString(ms, k) ==
    LET S == {i \in 1..Len(ms) : ms[i][1] = k /\ ms[i][2][1] = "str"}
    IN  IF S = {} THEN "" ELSE ms[CHOOSE i \in S : \A j \in S : j <= i][2][2]

\* The members of a JSON object decoded into a CubeOverlay; Data keeps the
\* raw text of the "data" member (json.RawMessage).
DecodeCubeOverlay(ms) ==
    [err |-> \E k \in StringKeys : FieldErr(ms, k),
     o |-> [ID |-> FieldString(ms, "id"), Name |-> FieldString(ms, "name"),
            Description |-> FieldString(ms, "description"),
            OrganizationID |-> FieldString(ms, "organizationId"),
            Data |-> IF HasKey(ms, "data") THEN ms[LastIndex(ms, "data")][2] ELSE Lit(""),
            CreatedBy |-> FieldString(ms, "createdBy"), CreatedAt |-> FieldString(ms, "createdAt"),
            UpdatedAt |-> FieldString(ms, "updatedAt")]]

\* json.Unmarshal(body, &overlay) with overlay a CubeOverlay.
UnmarshalOverlay(body) ==
    IF ~SyntaxOk(body) THEN [err |-> TRUE, o |-> ZeroOverlay]
    ELSE IF body[1] = "obj" THEN DecodeCubeOverlay(body[2])
    ELSE IF body = Lit("null") THEN [err |-> FALSE, o |-> ZeroOverlay]
    ELSE [err |-> TRUE, o |-> ZeroOverlay]

\* json.Unmarshal(body, &wrapper) with wrapper struct{ Data *CubeOverlay }:
\* nil says that wrapper.Data is left nil.
UnmarshalWrapper(body) ==
    IF ~SyntaxOk(body) THEN [err |-> TRUE, nil |-> TRUE, o |-> ZeroOverlay]
    ELSE IF body[1] = "obj" THEN
        IF ~HasKey(body[2], "data") THEN [err |-> FALSE, nil |-> TRUE, o |-> ZeroOverlay]
        ELSE LET d == body[2][LastIndex(body[2], "data")][2]
             IN  IF d[1] = "obj"
                 THEN [err |-> DecodeCubeOverlay(d[2]).err, nil |-> FALSE, o |-> DecodeCubeOverlay(d[2]).o]
                 ELSE IF d = Lit("null") THEN [err |-> FALSE, nil |-> TRUE, o |-> ZeroOverlay]
                 ELSE [err |-> TRUE, nil |-> FALSE, o |-> ZeroOverlay]
    ELSE IF body = Lit("null") THEN [err |-> FALSE, nil |-> TRUE, o |-> ZeroOverlay]
    ELSE [err |-> TRUE, nil |-> TRUE, o |-> ZeroOverlay]

\* Client.GetOverlay: the error and the overlay it returns for a response.
GetOverlay(id, resp) ==
    LET r == request(resp)
        w == UnmarshalWrapper(r.body)
        d == UnmarshalOverlay(r.body)
    IN  IF r.err # NoError THEN [err |-> r.err, overlay |-> ZeroOverlay]
        ELSE IF ~w.err /\ ~w.nil /\ w.o.ID # "" THEN [err |-> NoError, overlay |-> w.o]
        ELSE IF d.err THEN [err |-> UnmarshalFailed, overlay |-> ZeroOverlay]
        ELSE [err |-> NoError, overlay |-> d.o]

\* Client.CreateOverlay.
CreateOverlay(payload, resp) ==
    LET r == request(resp)
        w == UnmarshalWrapper(r.body)
        d == UnmarshalOverlay(r.body)
    IN  IF r.err # NoError THEN [err |-> r.err, overlay |-> ZeroOverlay]
        ELSE IF ~w.err /\ ~w.nil THEN [err |-> NoError, overlay |-> w.o]
        ELSE IF d.err THEN [err |-> UnmarshalFailed, overlay |-> ZeroOverlay]
        ELSE [err |-> NoError, overlay |-> d.o]

\* Client.UpdateOverlay.
UpdateOverlay(id, payload, resp) ==
    LET r == request(resp)
        w == UnmarshalWrapper(r.body)
        d == UnmarshalOverlay(r.body)
    IN  IF r.err # NoError THEN [err |-> r.err, overlay |-> ZeroOverlay]
        ELSE IF ~w.err /\ ~w.nil THEN [err |-> NoError, overlay |-> w.o]
        ELSE IF d.err THEN [err |-> UnmarshalFailed, overlay |-> ZeroOverlay]
        ELSE [err |-> NoError, overlay |-> d.o]

\* The elements of a JSON array decoded into a []CubeOverlay.
DecodeOverlays(es) ==
    [err |-> \E i \in 1..Len(es) :
                \/ es[i][1] # "obj" /\ es[i] # Lit("null")
                \/ es[i][1] = "obj" /\ DecodeCubeOverlay(es[i][2]).err,
     os |-> [i \in 1..Len(es) |-> IF es[i][1] = "obj" THEN DecodeCubeOverlay(es[i][2]).o ELSE ZeroOverlay]]

\* json.Unmarshal(body, &wrapper) with wrapper struct{ Data []CubeOverlay }.
UnmarshalListWrapper(body) ==
    IF ~SyntaxOk(body) THEN [err |-> TRUE, nil |-> TRUE, os |-> <<>>]
    ELSE IF body[1] = "obj" THEN
        IF ~HasKey(body[2], "data") THEN [err |-> FALSE, nil |-> TRUE, os |-> <<>>]
        ELSE LET d == body[2][LastIndex(body[2], "data")][2]
             IN  IF d[1] = "arr"
                 THEN [err |-> DecodeOverlays(d[2]).err, nil |-> FALSE, os |-> DecodeOverlays(d[2]).os]
                 ELSE IF d = Lit("null") THEN [err |-> FALSE, nil |-> TRUE, os |-> <<>>]
                 ELSE [err |-> TRUE, nil |-> TRUE, os |-> <<>>]
    ELSE IF body = Lit("null") THEN [err |-> FALSE, nil |-> TRUE, os |-> <<>>]
    ELSE [err |-> TRUE, nil |-> TRUE, os |-> <<>>]

\* json.Unmarshal(body, &overlays) with overlays a []CubeOverlay.
UnmarshalOverlays(body) ==
    IF ~SyntaxOk(body) THEN [err |-> TRUE, os |-> <<>>]
    ELSE IF body[1] = "arr" THEN DecodeOverlays(body[2])
    ELSE IF body = Lit("null") THEN [err |-> FALSE, os |-> <<>>]
    ELSE [err |-> TRUE, os |-> <<>>]

\* Client.ListOverlays: the error and the overlays it returns for a response.
ListOverlays(resp) ==
    LET r == request(resp)
        w == UnmarshalListWrapper(r.body)
        d == UnmarshalOverlays(r.body)
    IN  IF r.err # NoError THEN [err |-> r.err, overlays |-> <<>>]
        ELSE IF ~w.err /\ ~w.nil THEN [err |-> NoError, overlays |-> w.os]
        ELSE IF d.err THEN [err |-> UnmarshalFailed, overlays |-> <<>>]
        ELSE [err |-> NoError, overlays |-> d.os]

\* fmt.Errorf("overlay with name %q not found", name), the name as one piece.
NameNotFound(name) == <<"overlay with name ", name, " not found">>

\* Client.GetOverlayByName: the first listed overlay with the name.
GetOverlayByName(name, resp) ==
    LET l == ListOverlays(resp)
        S == {i \in 1..Len(l.overlays) : l.overlays[i].Name = name}
    IN  IF l.err # NoError THEN [err |-> l.err, overlay |-> ZeroOverlay]
        ELSE IF S # {} THEN [err |-> NoError, overlay |-> l.overlays[CHOOSE i \in S : \A j \in S : i <= j]]
        ELSE [err |-> NameNotFound(name), overlay |-> ZeroOverlay]

\* Client.DeleteOverlay: the error it returns for a response.
DeleteOverlay(id, resp) == request(resp).err

\* ------------------------------------------------------------------------
\* Deriving one text from another (the pairs of TestJsonEqual)
\* ------------------------------------------------------------------------

\* s with its elements i and i+1 exchanged.
SwapAt(s, i) == [s EXCEPT ![i] = s[i + 1], ![i + 1] = s[i]]

RECURSIVE KeySwaps(_)
\* The texts got from d by exchanging two neighbouring members of one of its
\* objects, at any depth.
KeySwaps(d) ==
    CASE d[1] \in {"lit", "str"} -> {}
      [] d[1] = "arr" ->
            UNION {{Arr([d[2] EXCEPT ![i] = x]) : x \in KeySwaps(d[2][i])} : i \in 1..Len(d[2])}
      [] OTHER ->
            {Obj(SwapAt(d[2], i)) : i \in 1..(Len(d[2]) - 1)}
            \cup UNION {{Obj([d[2] EXCEPT ![i] = <<d[2][i][1], x>>]) : x \in KeySwaps(d[2][i][2])} : i \in 1..Len(d[2])}

RECURSIVE ElemSwaps(_)
\* The texts got from d by exchanging two neighbouring elements of one of its
\* arrays, at any depth.
ElemSwaps(d) ==
    CASE d[1] \in {"lit", "str"} -> {}
      [] d[1] = "arr" ->
            {Arr(SwapAt(d[2], i)) : i \in 1..(Len(d[2]) - 1)}
            \cup UNION {{Arr([d[2] EXCEPT ![i] = x]) : x \in ElemSwaps(d[2][i])} : i \in 1..Len(d[2])}
      [] OTHER ->
            UNION {{Obj([d[2] EXCEPT ![i] = <<d[2][i][1], x>>]) : x \in ElemSwaps(d[2][i][2])} : i \in 1..Len(d[2])}

\* ------------------------------------------------------------------------
\* State
\* ------------------------------------------------------------------------

VARIABLES
    docA,      \* first argument of the comparator
    docB,      \* second argument of the comparator
    how,       \* how docB was got from docA: start, copy, keys, elems, other
    result,    \* what jsonEqual(docA, docB) returned
    deep,      \* what deepEqual returned on the two decoded values, if called
    pm,        \* the data plan modifier's request and the planned value it left
    remote,    \* the overlays the remote API holds, by identifier
    tfstate,   \* the tracked state of the resource: <<>> or <<model>>
    last,      \* the last handler call: its diagnostics and the response it got
    reqs,      \* the requests the last handler call issued
    delId,     \* the identifier of the Delete calls in a row, if any
    delRun,    \* how many Delete calls in a row had that identifier
    managed,   \* the identifier of the remote overlay the resource stands for
    conf,      \* the provider's Configure: its request, environment and response
    shp,       \* an overlay and what the client returned for its two response shapes
    mp,        \* ModifyPlan's request and the plan it left
    docC,      \* a third text for the comparator
    rel        \* what jsonEqual returned on the pairs of docA, docB, docC

cmpVars == <<docA, docB, how, result, deep>>
lifeVars == <<remote, tfstate, last, reqs, delId, delRun, managed>>
restVars == <<conf, shp, mp, docC, rel>>
pureVars == <<pm, restVars>>
vars == <<cmpVars, pureVars, lifeVars>>

\* How many Delete calls in a row are followed.
MaxDeleteRun == 3

\* No handler call yet.
Idle ==
    [op |-> "none", diag |-> "", err |-> <<>>, kind |-> "none", status |-> 0, text |-> <<>>,
     shape |-> "none", jsonOk |-> TRUE, first |-> "none"]

\* The comparator is not under test.
CmpIdle ==
    /\ docA = Lit("null")
    /\ docB = docA
    /\ how = "idle"
    /\ result = FALSE
    /\ deep = "none"

\* The plan modifier is not under test.
PlanIdle == pm = [state |-> Null, config |-> Null, plan |-> Null, out |-> Null, called |-> FALSE]

\* The provider is not being configured.
ConfIdle == conf = [called |-> FALSE]

\* The client's decoding is not under test.
ShapeIdle == shp = [called |-> FALSE]

\* ModifyPlan is not under test.
ModIdle == mp = [called |-> FALSE]

\* No three texts are compared.
RelIdle == docC = Lit("null") /\ rel = [called |-> FALSE]

RestIdle == ConfIdle /\ ShapeIdle /\ ModIdle /\ RelIdle

\* Nothing created yet, nothing tracked.
LifeIdle ==
    /\ remote = [i \in Ids |-> <<>>]
    /\ tfstate = <<>>
    /\ last = Idle
    /\ reqs = <<>>
    /\ delId = <<>>
    /\ delRun = 0
    /\ managed = <<>>

\* ------------------------------------------------------------------------
\* The comparator's callers
\* ------------------------------------------------------------------------

\* deepEqual on the decoded arguments, as TestDeepEqual calls it.
CallDeepEqual(a, b) ==
    IF UnmarshalOk(a) /\ UnmarshalOk(b)
    THEN IF deepEqual(Decode(a), Decode(b)) THEN "true" ELSE "false"
    ELSE "none"

\* jsonEqual(docA, b), as TestJsonEqual calls it.
Compare(b, h) ==
    /\ docB' = b
    /\ how' = h
    /\ result' = jsonEqual(docA, b)
    /\ deep' = CallDeepEqual(docA, b)
    /\ UNCHANGED <<docA, pureVars, lifeVars>>

\* A document against an exact textual copy of itself.
CompareCopy ==
    /\ how = "start"
    /\ Compare(docA, "copy")

\* A document against itself with the keys of one object reordered.
CompareReordered ==
    /\ how \in {"copy", "keys"}
    /\ \E b \in KeySwaps(docB) : Compare(b, "keys")

\* A document against itself with the elements of one array permuted.
ComparePermuted ==
    /\ how \in {"copy", "elems"}
    /\ \E b \in ElemSwaps(docB) : Compare(b, "elems")

\* A document against another document.
CompareOther ==
    /\ how = "copy"
    /\ \E b \in Probes : Compare(b, "other")

CmpInit ==
    /\ docA \in Docs
    /\ docB = docA
    /\ how = "start"
    /\ result = FALSE
    /\ deep = "none"
    /\ PlanIdle
    /\ RestIdle
    /\ LifeIdle

CmpNext == CompareCopy \/ CompareReordered \/ ComparePermuted \/ CompareOther

\* The comparator under its test inputs.
CmpSpec == CmpInit /\ [][CmpNext]_vars

\* ------------------------------------------------------------------------
\* The comparator on three texts
\* ------------------------------------------------------------------------

\* jsonEqual on the pairs of the three texts.
CompareThree ==
    /\ ~rel.called
    /\ rel' = [called |-> TRUE, aa |-> jsonEqual(docA, docA), ab |-> jsonEqual(docA, docB),
               ba |-> jsonEqual(docB, docA), bc |-> jsonEqual(docB, docC), ac |-> jsonEqual(docA, docC)]
    /\ UNCHANGED <<docA, docB, docC, how, result, deep, pm, conf, shp, mp, lifeVars>>

RelInit ==
    /\ docA \in Probes
    /\ docB \in Probes
    /\ docC \in Probes
    /\ rel = [called |-> FALSE]
    /\ how = "idle"
    /\ result = FALSE
    /\ deep = "none"
    /\ PlanIdle
    /\ ConfIdle
    /\ ShapeIdle
    /\ ModIdle
    /\ LifeIdle

RelNext == CompareThree

\* The comparator on every three texts.
RelSpec == RelInit /\ [][RelNext]_vars

\* ------------------------------------------------------------------------
\* The framework planning the data attribute
\* ------------------------------------------------------------------------

\* The prior state of data: null before creation, a text after.
StateValues == {Null} \cup {Value(d) : d \in PlanDataDocs}

\* The configured data: null, not yet known, or a text.
ConfigValues == {Null, Unknown} \cup {Value(d) : d \in PlanDataDocs}

\* The planned data the framework proposes.
PlanValues == {Null, Unknown} \cup {Value(d) : d \in PlanDataDocs}

\* The framework runs the modifier on the data attribute.
ModifyData ==
    /\ ~pm.called
    /\ pm' = [pm EXCEPT !.out = PlanModifyString(pm.state, pm.config, pm.plan), !.called = TRUE]
    /\ UNCHANGED <<cmpVars, restVars, lifeVars>>

PlanInit ==
    /\ pm \in [state : StateValues, config : ConfigValues, plan : PlanValues, out : {Null}, called : {FALSE}]
    /\ CmpIdle
    /\ RestIdle
    /\ LifeIdle

PlanNext == ModifyData

\* The plan modifier under every request.
PlanSpec == PlanInit /\ [][PlanNext]_vars

\* ------------------------------------------------------------------------
\* The provider's Configure
\* ------------------------------------------------------------------------

\* Configure taking the environment's value whenever it is set.
Configure_EnvFirst(data, envURL, envToken) ==
    LET apiURL == IF envURL # "" THEN envURL ELSE ValueString(data.APIURL)
        token == IF envToken # "" THEN envToken ELSE ValueString(data.Token)
        diags == (IF apiURL = "" THEN {"Missing API URL"} ELSE {})
                 \cup (IF token = "" THEN {"Missing Token"} ELSE {})
    IN  [diags |-> diags,
         client |-> IF diags # {} THEN <<>> ELSE <<[APIURL |-> apiURL, Token |-> token]>>]

\* RevosProvider.Configure: the diagnostics and the client handed to the
\* resources (none is <<>>); envURL and envToken are what os.Getenv returns,
\* "" for a variable that is not set.
Configure(data, envURL, envToken) ==
    LET apiURL == IF ~IsNull(data.APIURL) THEN ValueString(data.APIURL) ELSE envURL
        token == IF ~IsNull(data.Token) THEN ValueString(data.Token) ELSE envToken
        diags == (IF apiURL = "" THEN {"Missing API URL"} ELSE {})
                 \cup (IF token = "" THEN {"Missing Token"} ELSE {})
    IN  [diags |-> diags,
         client |-> IF diags # {} THEN <<>> ELSE <<[APIURL |-> apiURL, Token |-> token]>>]

\* The api_url of the provider block: absent, not yet known, empty, given.
ConfigURLs == {Null, Unknown, Value(""), Value("https://cfg")}

\* The token of the provider block.
ConfigTokens == {Null, Unknown, Value(""), Value("cfg-token")}

\* REVOSAI_API_URL: not set, or set.
EnvURLs == {"", "https://env"}

\* REVOSAI_TOKEN: not set, or set.
EnvTokens == {"", "env-token"}

\* The plugin host configures the provider.
CallConfigure ==
    /\ ~conf.called
    /\ conf' = [conf EXCEPT !.called = TRUE,
                            !.diags = Configure(conf.data, conf.envURL, conf.envToken).diags,
                            !.client = Configure(conf.data, conf.envURL, conf.envToken).client]
    /\ UNCHANGED <<cmpVars, pm, shp, mp, docC, rel, lifeVars>>

ConfInit ==
    /\ \E u \in ConfigURLs, t \in ConfigTokens, eu \in EnvURLs, et \in EnvTokens :
            conf = [called |-> FALSE, data |-> [APIURL |-> u, Token |-> t], envURL |-> eu, envToken |-> et,
                    diags |-> {}, client |-> <<>>]
    /\ CmpIdle
    /\ PlanIdle
    /\ ShapeIdle
    /\ ModIdle
    /\ RelIdle
    /\ LifeIdle

ConfNext == CallConfigure

\* The provider configured under every block and environment.
ConfSpec == ConfInit /\ [][ConfNext]_vars

\* ------------------------------------------------------------------------
\* The client on the two response shapes
\* ------------------------------------------------------------------------

\* The data blobs of the overlays answered: objects, with and without members
\* named like an overlay's, an array, scalars, null.
ShapeData ==
    {DataAB, DataId, Obj(<<>>), Obj(<<<<"id", Lit("1")>>>>), Obj(<<<<"name", Str("s")>>>>),
     Arr(<<Lit("1"), Lit("2")>>), Lit("1"), Str("s"), Lit("null")}

\* The overlays answered.
ShapeOverlays ==
    {[id |-> i, name |-> n, description |-> d, organizationId |-> "org1", data |-> t,
      createdBy |-> "u1", createdAt |-> "t1", updatedAt |-> "t2"] :
        i \in Ids, n \in Names, d \in {"", "d"}, t \in ShapeData}

\* The request body of a create or update for the overlay.
ShapePayload(o) == [Name |-> o.name, Description |-> o.description, Data |-> o.data]

\* One client function on the overlay answered bare and in the envelope.
Answer(fn, bare, env) ==
    /\ ~shp.called
    /\ shp' = [shp EXCEPT !.called = TRUE, !.fn = fn, !.bare = bare, !.env = env]
    /\ UNCHANGED <<cmpVars, pm, conf, mp, docC, rel, lifeVars>>

BareBody(o) == HttpOk(OverlayBody(o), "direct")
EnvelopeBody(o) == HttpOk(Obj(<<<<"data", OverlayBody(o)>>>>), "envelope")

AnswerGet ==
    Answer("GetOverlay", GetOverlay(shp.o.id, BareBody(shp.o)), GetOverlay(shp.o.id, EnvelopeBody(shp.o)))

AnswerCreate ==
    Answer("CreateOverlay", CreateOverlay(ShapePayload(shp.o), BareBody(shp.o)),
           CreateOverlay(ShapePayload(shp.o), EnvelopeBody(shp.o)))

AnswerUpdate ==
    Answer("UpdateOverlay", UpdateOverlay(shp.o.id, ShapePayload(shp.o), BareBody(shp.o)),
           UpdateOverlay(shp.o.id, ShapePayload(shp.o), EnvelopeBody(shp.o)))

ShapeInit ==
    /\ \E o \in ShapeOverlays :
            shp = [called |-> FALSE, o |-> o, fn |-> "none",
                   bare |-> [err |-> NoError, overlay |-> ZeroOverlay],
                   env |-> [err |-> NoError, overlay |-> ZeroOverlay]]
    /\ CmpIdle
    /\ PlanIdle
    /\ ConfIdle
    /\ ModIdle
    /\ RelIdle
    /\ LifeIdle

ShapeNext == AnswerGet \/ AnswerCreate \/ AnswerUpdate

\* The client's three decoding functions on every overlay in both shapes.
ShapeSpec == ShapeInit /\ [][ShapeNext]_vars

\* ------------------------------------------------------------------------
\* The resource's ModifyPlan
\* ------------------------------------------------------------------------

\* types.String.Equal: the same of null, unknown, known, and the same value.
Equal(a, b) == a = b

\* stringEqualOrBothEmpty
stringEqualOrBothEmpty(a, b) ==
    LET aEmpty == IsNull(a) \/ ValueString(a) = ""
        bEmpty == IsNull(b) \/ ValueString(b) = ""
    IN  IF aEmpty /\ bEmpty THEN TRUE ELSE Equal(a, b)

\* OverlayResource.ModifyPlan: the plan it leaves; a null plan (destroy) and
\* a null state (create) are <<>>.
ModifyPlan(plan, state) ==
    IF plan = <<>> THEN plan
    ELSE IF state = <<>> THEN plan
    ELSE LET nameUnchanged == Equal(plan[1].Name, state[1].Name)
             descUnchanged == stringEqualOrBothEmpty(plan[1].Description, state[1].Description)
             dataUnchanged == jsonEqual(ValueText(plan[1].Data), ValueText(state[1].Data))
         IN  IF nameUnchanged /\ descUnchanged /\ dataUnchanged
             THEN <<[plan[1] EXCEPT !.OrganizationID = state[1].OrganizationID,
                                    !.CreatedBy = state[1].CreatedBy,
                                    !.CreatedAt = state[1].CreatedAt,
                                    !.UpdatedAt = state[1].UpdatedAt,
                                    !.Data = state[1].Data]>>
             ELSE plan

\* The prior states ModifyPlan is given: none, or a resource read before.
ModStates ==
    {<<>>} \cup {<<[ID |-> Value("ov1"), Name |-> Value("n1"), Description |-> d, OrganizationID |-> Value("org1"),
                    Data |-> Value(t), CreatedBy |-> Value("u1"), CreatedAt |-> Value("t1"),
                    UpdatedAt |-> Value("t1")]>> :
                    d \in {Null, Value(""), Value("d")}, t \in {DataAB, DataBad}}

\* The plans ModifyPlan is given: none, or the configuration with the
\* computed attributes unknown; a configured attribute may be unknown too.
ModPlans ==
    {<<>>} \cup {<<[ID |-> Value("ov1"), Name |-> n, Description |-> d, OrganizationID |-> Unknown,
                    Data |-> t, CreatedBy |-> Unknown, CreatedAt |-> Unknown, UpdatedAt |-> Unknown]>> :
                    n \in {Value("n1"), Value("n2"), Unknown},
                    d \in {Null, Unknown, Value(""), Value("d")},
                    t \in {Unknown} \cup {Value(x) : x \in PlanDataDocs}}

\* The framework runs ModifyPlan.
CallModifyPlan ==
    /\ ~mp.called
    /\ mp' = [mp EXCEPT !.called = TRUE, !.out = ModifyPlan(mp.plan, mp.state)]
    /\ UNCHANGED <<cmpVars, pm, conf, shp, docC, rel, lifeVars>>

ModInit ==
    /\ \E st \in ModStates, pl \in ModPlans : mp = [called |-> FALSE, state |-> st, plan |-> pl, out |-> <<>>]
    /\ CmpIdle
    /\ PlanIdle
    /\ ConfIdle
    /\ ShapeIdle
    /\ RelIdle
    /\ LifeIdle

ModNext == CallModifyPlan

\* ModifyPlan under every state and plan.
ModSpec == ModInit /\ [][ModNext]_vars

\* ------------------------------------------------------------------------
\* The overlay resource's handlers
\* ------------------------------------------------------------------------

\* What a handler call leaves to look at.
Done(op, diag, err, resp, ok) ==
    [op |-> op, diag |-> diag, err |-> err, kind |-> resp.kind, status |-> resp.status, text |-> resp.text,
     shape |-> resp.shape, jsonOk |-> ok, first |-> "none"]

\* No request was issued.
NoResponse == [kind |-> "none", status |-> 0, text |-> <<>>, shape |-> "none"]

\* The plan the framework hands to Create and Update.
PlanOf(id, name, desc, data) ==
    [ID |-> id, Name |-> Value(name), Description |-> desc, OrganizationID |-> Unknown,
     Data |-> Value(data), CreatedBy |-> Unknown, CreatedAt |-> Unknown, UpdatedAt |-> Unknown]

\* client.OverlayPayload built from the plan.
PayloadOf(data) ==
    [Name |-> ValueString(data.Name), Description |-> ValueString(data.Description),
     Data |-> ValueText(data.Data)]

\* The validation without effect.
PlanDataOk_Always(data) == TRUE

\* json.Unmarshal([]byte(data.Data.ValueString()), &rawData) returns no error.
PlanDataOk(data) == RawMessageOk(ValueText(data.Data))

\* Create's state: the plan with the computed fields from the response.
CreateState(data, overlay) ==
    [data EXCEPT !.ID = Value(overlay.ID), !.OrganizationID = Value(overlay.OrganizationID),
                 !.CreatedBy = Value(overlay.CreatedBy), !.CreatedAt = Value(overlay.CreatedAt),
                 !.UpdatedAt = Value(overlay.UpdatedAt)]

\* Update's state: the plan with the computed fields, but the id, from the response.
UpdateState(data, overlay) ==
    [data EXCEPT !.OrganizationID = Value(overlay.OrganizationID),
                 !.CreatedBy = Value(overlay.CreatedBy), !.CreatedAt = Value(overlay.CreatedAt),
                 !.UpdatedAt = Value(overlay.UpdatedAt)]

\* Read's state: every field but the id from the response, data only when
\* the comparator finds it different.
ReadState(data, overlay) ==
    [data EXCEPT !.Name = Value(overlay.Name),
                 !.Description = IF overlay.Description = "" THEN Null ELSE Value(overlay.Description),
                 !.OrganizationID = Value(overlay.OrganizationID),
                 !.CreatedBy = Value(overlay.CreatedBy), !.CreatedAt = Value(overlay.CreatedAt),
                 !.UpdatedAt = Value(overlay.UpdatedAt),
                 !.Data = IF ~jsonEqual(ValueText(data.Data), overlay.Data) THEN Value(overlay.Data) ELSE @]

\* "API error 404", the thirteen characters both handlers look for.
Prefix404 == <<"A", "P", "I", " ", "e", "r", "r", "o", "r", " ", "4", "0", "4">>

\* Read taking the one message "API error 404: Not Found" for not found.
ReadIsNotFound_ExactOnly(err) == err = Prefix404 \o <<":", " ">> \o NotFoundText

\* Read's test for not found on the error's message.
ReadIsNotFound(err) ==
    \/ err = Prefix404 \o <<":", " ">> \o NotFoundText
    \/ Len(err) > 13 /\ SubSeq(err, 1, 13) = Prefix404

\* Delete without its test for not found.
DeleteIsNotFound_Never(err) == FALSE

\* Delete's test for not found on the error's message.
DeleteIsNotFound(err) == Len(err) > 13 /\ SubSeq(err, 1, 13) = Prefix404

\* OverlayResource.Create
Create ==
    /\ tfstate = <<>>
    /\ \E name \in Names, desc \in PlanDescriptions, text \in PlanDataDocs :
        LET data == PlanOf(Unknown, name, desc, text)
        IN  IF ~PlanDataOk(data)
            THEN /\ last' = Done("Create", "Invalid JSON in data", NoError, NoResponse, SyntaxOk(text))
                 /\ reqs' = <<>>
                 /\ UNCHANGED <<remote, tfstate, managed>>
            ELSE \E ex \in Post(remote, PayloadOf(data)) :
                    LET res == CreateOverlay(PayloadOf(data), ex.resp)
                    IN  /\ reqs' = <<<<"POST", "">>>>
                        /\ remote' = ex.remote
                        /\ IF res.err # NoError
                           THEN /\ last' = Done("Create", "Client Error", res.err, ex.resp, SyntaxOk(text))
                                /\ UNCHANGED <<tfstate, managed>>
                           ELSE /\ last' = Done("Create", "", NoError, ex.resp, SyntaxOk(text))
                                /\ tfstate' = <<CreateState(data, res.overlay)>>
                                /\ managed' = <<CHOOSE i \in Ids : remote[i] = <<>> /\ ex.remote[i] # <<>>>>
    /\ delId' = <<>>
    /\ delRun' = 0
    /\ UNCHANGED <<cmpVars, pureVars>>

\* OverlayResource.Read
Read ==
    /\ tfstate # <<>>
    /\ LET data == tfstate[1]
           id == ValueString(data.ID)
       IN  \E ex \in Get(remote, id) :
            LET res == GetOverlay(id, ex.resp)
            IN  /\ reqs' = <<<<"GET", id>>>>
                /\ IF res.err # NoError
                   THEN IF ReadIsNotFound(res.err)
                        THEN /\ last' = Done("Read", "", NoError, ex.resp, TRUE)
                             /\ tfstate' = <<>>
                             /\ managed' = <<>>
                        ELSE /\ last' = Done("Read", "Client Error", res.err, ex.resp, TRUE)
                             /\ UNCHANGED <<tfstate, managed>>
                   ELSE /\ last' = Done("Read", "", NoError, ex.resp, TRUE)
                        /\ tfstate' = <<ReadState(data, res.overlay)>>
                        /\ UNCHANGED managed
    /\ delId' = <<>>
    /\ delRun' = 0
    /\ UNCHANGED <<cmpVars, pureVars, remote>>

\* OverlayResource.Update
Update ==
    /\ tfstate # <<>>
    /\ \E name \in Names, desc \in PlanDescriptions, text \in PlanDataDocs :
        LET data == PlanOf(tfstate[1].ID, name, desc, text)
            id == ValueString(data.ID)
        IN  IF ~PlanDataOk(data)
            THEN /\ last' = Done("Update", "Invalid JSON in data", NoError, NoResponse, SyntaxOk(text))
                 /\ reqs' = <<>>
                 /\ UNCHANGED <<remote, tfstate>>
            ELSE \E ex \in Patch(remote, id, PayloadOf(data)) :
                    LET res == UpdateOverlay(id, PayloadOf(data), ex.resp)
                    IN  /\ reqs' = <<<<"PATCH", id>>>>
                        /\ remote' = ex.remote
                        /\ IF res.err # NoError
                           THEN /\ last' = Done("Update", "Client Error", res.err, ex.resp, SyntaxOk(text))
                                /\ UNCHANGED tfstate
                           ELSE /\ last' = Done("Update", "", NoError, ex.resp, SyntaxOk(text))
                                /\ tfstate' = <<UpdateState(data, res.overlay)>>
    /\ delId' = <<>>
    /\ delRun' = 0
    /\ UNCHANGED <<cmpVars, pureVars, managed>>

\* The identifiers Delete may be called with: the tracked one, or the one of
\* the call before when the framework delivers it again.
DeleteTargets ==
    IF tfstate # <<>> THEN {ValueString(tfstate[1].ID)}
    ELSE IF delId # <<>> /\ delRun < MaxDeleteRun THEN {delId[1]}
    ELSE {}

\* OverlayResource.Delete; the framework drops the tracked state when the
\* handler returns without an error diagnostic.
Delete ==
    /\ \E id \in DeleteTargets :
        \E ex \in Del(remote, id) :
            LET err == DeleteOverlay(id, ex.resp)
            IN  /\ reqs' = <<<<"DELETE", id>>>>
                /\ remote' = ex.remote
                /\ delId' = <<id>>
                /\ delRun' = IF delId = <<id>> THEN (IF delRun < MaxDeleteRun THEN delRun + 1 ELSE delRun) ELSE 1
                /\ IF err # NoError /\ ~DeleteIsNotFound(err)
                   THEN /\ last' = Done("Delete", "Client Error", err, ex.resp, TRUE)
                        /\ UNCHANGED <<tfstate, managed>>
                   ELSE /\ last' = Done("Delete", "", NoError, ex.resp, TRUE)
                        /\ tfstate' = <<>>
                        /\ managed' = <<>>
    /\ UNCHANGED <<cmpVars, pureVars>>

\* The strings an import may be given: an identifier or a name.
ImportIds == Ids \cup Names

\* json.Marshal(overlay.Data) with the error dropped: "null" for a nil
\* RawMessage, the compacted text for JSON, nothing when compaction fails.
MarshalRaw(d) ==
    IF d = Lit("") THEN Lit("null")
    ELSE IF SyntaxOk(d) THEN d
    ELSE Lit("")

\* ImportState's state: every attribute set from the overlay.
ImportedState(overlay) ==
    [ID |-> Value(overlay.ID), Name |-> Value(overlay.Name), Description |-> Value(overlay.Description),
     OrganizationID |-> Value(overlay.OrganizationID), Data |-> Value(MarshalRaw(overlay.Data)),
     CreatedBy |-> Value(overlay.CreatedBy), CreatedAt |-> Value(overlay.CreatedAt),
     UpdatedAt |-> Value(overlay.UpdatedAt)]

\* A response that carries an overlay or a list.
Carries(resp) == resp.shape \in {"direct", "envelope"}

\* OverlayResource.ImportState
ImportState ==
    /\ tfstate = <<>>
    /\ \E id \in ImportIds :
        \E ex \in Get(remote, id) :
            LET res == GetOverlay(id, ex.resp)
                first == IF Carries(ex.resp) THEN "found" ELSE "failed"
            IN  IF res.err = NoError
                THEN /\ reqs' = <<<<"GET", id>>>>
                     /\ last' = [Done("ImportState", "", NoError, ex.resp, TRUE) EXCEPT !.first = first]
                     /\ tfstate' = <<ImportedState(res.overlay)>>
                     /\ managed' = <<id>>
                ELSE \E ex2 \in List(remote) :
                        LET res2 == GetOverlayByName(id, ex2.resp)
                        IN  /\ reqs' = <<<<"GET", id>>, <<"LIST", "">>>>
                            /\ IF res2.err # NoError
                               THEN /\ last' = [Done("ImportState", "Import Error", res2.err, ex2.resp, TRUE) EXCEPT !.first = first]
                                    /\ UNCHANGED <<tfstate, managed>>
                               ELSE /\ last' = [Done("ImportState", "", NoError, ex2.resp, TRUE) EXCEPT !.first = first]
                                    /\ tfstate' = <<ImportedState(res2.overlay)>>
                                    /\ managed' = <<CHOOSE i \in Ids : Present(remote, i) /\ remote[i][1].name = id>>
    /\ delId' = <<>>
    /\ delRun' = 0
    /\ UNCHANGED <<cmpVars, pureVars, remote>>

\* Someone else changes the remote overlay, or removes it, or creates one.
Drift ==
    /\ \E i \in Ids :
        IF remote[i] # <<>>
        THEN \/ \E t \in RemoteDataDocs : remote' = [remote EXCEPT ![i] = <<[remote[i][1] EXCEPT !.data = t, !.updatedAt = "t2"]>>]
             \/ remote' = [remote EXCEPT ![i] = <<>>]
        ELSE \E n \in Names, t \in RemoteDataDocs :
                remote' = [remote EXCEPT ![i] = <<[id |-> i, name |-> n, description |-> "", organizationId |-> "org1",
                                                   data |-> t, createdBy |-> "u1", createdAt |-> "t1", updatedAt |-> "t1"]>>]
    /\ last' = Idle
    /\ reqs' = <<>>
    /\ UNCHANGED <<cmpVars, pureVars, tfstate, delId, delRun, managed>>

Init ==
    /\ CmpIdle
    /\ PlanIdle
    /\ RestIdle
    /\ LifeIdle

Next == Create \/ Read \/ Update \/ Delete \/ ImportState \/ Drift

\* The overlay resource through its life.
Spec == Init /\ [][Next]_vars

\* ------------------------------------------------------------------------
\* Properties of the comparator
\* ------------------------------------------------------------------------

RECURSIVE NoRepeatedKey(_)
\* No object of the text, at any depth, has two members with the same key.
NoRepeatedKey(d) ==
    CASE d[1] \in {"lit", "str"} -> TRUE
      [] d[1] = "arr" -> \A i \in 1..Len(d[2]) : NoRepeatedKey(d[2][i])
      [] OTHER ->
            /\ \A i, j \in 1..Len(d[2]) : i # j => d[2][i][1] # d[2][j][1]
            /\ \A i \in 1..Len(d[2]) : NoRepeatedKey(d[2][i][2])

RECURSIVE PermutedDiffers(_, _)
\* b is a with the elements of its arrays permuted, and an array of b, at the
\* root or nested inside objects, holds at some index an element that is not
\* the one a holds there.
PermutedDiffers(a, b) ==
    CASE a[1] \in {"lit", "str"} -> FALSE
      [] a[1] = "arr" -> \E i \in 1..Len(a[2]) : ~SameValue(a[2][i], b[2][i])
      [] OTHER -> \E i \in 1..Len(a[2]) : PermutedDiffers(a[2][i][2], b[2][i][2])

\* C1 as stated: for every valid document A and every B got from A by
\* reordering the keys of its objects at any depth, jsonEqual(A, B) is true.
C1_AnyValidDocument ==
    (how = "keys" /\ UnmarshalOk(docA)) => result = TRUE

\* C1 (amended): for every valid document A none of whose objects repeats a
\* key, and every B got from A by reordering the keys of its objects at any
\* depth, jsonEqual(A, B) is true.
C1_KeyOrderIrrelevant ==
    (how = "keys" /\ UnmarshalOk(docA) /\ NoRepeatedKey(docA)) => result = TRUE

\* C1's case: a valid document with distinct keys compared with itself after
\* the keys of a nested object were reordered.
C1_Witness ==
    /\ how = "keys" /\ UnmarshalOk(docA) /\ NoRepeatedKey(docA) /\ result = TRUE
    /\ docA[1] = "obj"
    /\ \E i \in 1..Len(docA[2]) :
          /\ docA[2][i][1] = docB[2][i][1]
          /\ docA[2][i][2][1] = "obj"
          /\ docA[2][i][2] # docB[2][i][2]

\* C2 as stated: a permutation of an array's elements that puts a different
\* element at some index compares not-equal, also when the array is nested
\* inside objects.
C2_AnyEnclosingObject ==
    (how = "elems" /\ PermutedDiffers(docA, docB)) => result = FALSE

\* C2 (amended): a permutation of an array's elements that puts a different
\* element at some index compares not-equal, also when the array is nested
\* inside objects that repeat no key; and two arrays are equal exactly when
\* they have the same length and equal elements at each index.
C2_ArrayOrderSignificant ==
    /\ (how = "elems" /\ PermutedDiffers(docA, docB) /\ NoRepeatedKey(docA)) => result = FALSE
    /\ (how # "start" /\ UnmarshalOk(docA) /\ UnmarshalOk(docB)
            /\ docA[1] = "arr" /\ docB[1] = "arr")
        => result = (/\ Len(docA[2]) = Len(docB[2])
                     /\ \A i \in 1..Len(docA[2]) : Decode(docA[2][i]) = Decode(docB[2][i]))

\* C2's case: an array nested inside an object, permuted so that an index
\* holds a different element, compared not-equal.
C2_Witness ==
    /\ how = "elems" /\ UnmarshalOk(docA) /\ NoRepeatedKey(docA) /\ result = FALSE
    /\ docA[1] = "obj"
    /\ PermutedDiffers(docA, docB)

\* C3: when either argument fails to parse, whichever it is and also when
\* both do (the same invalid text included), jsonEqual returns false, and it
\* always returns a boolean.
C3_ParseFailureNotEqual ==
    /\ result \in BOOLEAN
    /\ (how # "start" /\ (~UnmarshalOk(docA) \/ ~UnmarshalOk(docB))) => result = FALSE

\* C3's case: an invalid text compared with an exact copy of itself.
C3_Witness ==
    how = "copy" /\ ~SyntaxOk(docA) /\ docB = docA /\ result = FALSE

\* The kind of a decoded value.
Kind(v) == v[1]

\* C4: deepEqual is true of two objects exactly when they have the same
\* number of keys, every key of the first is in the second and the values
\* under each key are equal; it is false of two values of different kinds.
C4_ObjectsAndKinds ==
    (how # "start" /\ deep # "none") =>
        LET va == Decode(docA)
            vb == Decode(docB)
        IN  /\ (Kind(va) = "map" /\ Kind(vb) = "map") =>
                  ((deep = "true") <=>
                      /\ Cardinality(DOMAIN va[2]) = Cardinality(DOMAIN vb[2])
                      /\ \A k \in DOMAIN va[2] : k \in DOMAIN vb[2] /\ va[2][k] = vb[2][k])
            /\ Kind(va) # Kind(vb) => deep = "false"

\* C4's case: an object compared with one that has the same members and an
\* extra key.
C4_Witness ==
    /\ how = "other" /\ deep = "false"
    /\ docA[1] = "obj" /\ docB[1] = "obj"
    /\ LET va == Decode(docA)
           vb == Decode(docB)
       IN  /\ DOMAIN va[2] # DOMAIN vb[2]
           /\ DOMAIN va[2] # {}
           /\ \A k \in DOMAIN va[2] : k \in DOMAIN vb[2] /\ va[2][k] = vb[2][k]

\* C5: jsonEqual(D, D) is true for every valid document D.
C5_Reflexive ==
    (how = "copy" /\ UnmarshalOk(docA)) => result = TRUE

\* C5's case: a valid object that holds a non-empty array, compared with its
\* exact copy.
C5_Witness ==
    /\ how = "copy" /\ UnmarshalOk(docA) /\ docB = docA /\ result = TRUE
    /\ docA[1] = "obj"
    /\ \E i \in 1..Len(docA[2]) : docA[2][i][2][1] = "arr" /\ Len(docA[2][i][2][2]) > 0
\* ------------------------------------------------------------------------
\* Properties of the plan modifier
\* ------------------------------------------------------------------------

\* C6: the data plan modifier leaves the state value as the planned value
\* exactly when the state value is not null, the config value is neither
\* null nor unknown, and the two texts are JSON of the same value; in every
\* other case it leaves the planned value it was given.
C6_PlanModifier ==
    pm.called =>
        pm.out = IF /\ ~IsNull(pm.state)
                    /\ ~IsNull(pm.config) /\ ~IsUnknown(pm.config)
                    /\ SameValue(ValueText(pm.state), ValueText(pm.config))
                 THEN pm.state
                 ELSE pm.plan

\* C6: state and config hold the same object with the keys in another
\* order, and the plan is set to the state's text.
C6_Witness ==
    /\ pm.called
    /\ pm.state = Value(DataAB)
    /\ pm.config = Value(DataBA)
    /\ pm.plan = Value(DataBA)
    /\ pm.out = Value(DataAB)

\* ------------------------------------------------------------------------
\* Properties of the handlers
\* ------------------------------------------------------------------------

\* The last call was a Create, Read or Update that completed without error
\* and left a tracked resource whose remote overlay exists.
Completed ==
    /\ last.op \in {"Create", "Read", "Update"}
    /\ last.diag = ""
    /\ tfstate # <<>>
    /\ managed # <<>>
    /\ Present(remote, managed[1])

\* C7: each time a Create, Read or Update completes without error, the data
\* in tracked state is JSON of the same value as the data of the remote
\* overlay.
C7_StateDataAgrees ==
    Completed => SameValue(ValueText(tfstate[1].Data), remote[managed[1]][1].data)

\* C7: the same, for the calls whose response came in the envelope.
C7_EnvelopeAgrees ==
    (Completed /\ last.shape = "envelope")
        => SameValue(ValueText(tfstate[1].Data), remote[managed[1]][1].data)

\* C7: a Read answered in the envelope replaced the data in state by the
\* remote's, which has another value than the data it replaced.
C7_Witness ==
    /\ Completed
    /\ last.op = "Read"
    /\ last.shape = "envelope"
    /\ tfstate[1].Data = Value(DataId)
    /\ remote[managed[1]][1].data = DataId
    /\ tfstate[1].UpdatedAt = Value("t1")

\* C8: a Create or Update whose planned data is not syntactically valid JSON
\* reports the validation error, issues no request, and leaves the tracked
\* state and the remote as they were.
C8_InvalidPlanData ==
    [][(last'.op \in {"Create", "Update"} /\ ~last'.jsonOk)
        => /\ last'.diag = "Invalid JSON in data"
           /\ reqs' = <<>>
           /\ tfstate' = tfstate
           /\ remote' = remote]_vars

\* C8: an Update with invalid data was refused and the resource is still
\* tracked.
C8_Witness ==
    /\ last.op = "Update"
    /\ ~last.jsonOk
    /\ last.diag = "Invalid JSON in data"
    /\ reqs = <<>>
    /\ tfstate # <<>>

\* The response of the last call is a failure other than not found: no
\* response, an error status that is not 404, or a body that does not parse.
OtherFailure(l) ==
    \/ l.kind = "transport"
    \/ l.kind = "http" /\ l.status >= 400 /\ l.status # 404
    \/ l.shape = "garbage"

\* C9: a Read answered 404 removes the resource from tracked state and
\* reports no error; a Read that meets any other failure reports an error
\* and leaves the tracked state as it was.
C9_ReadNotFound ==
    [][last'.op = "Read"
        => /\ (last'.kind = "http" /\ last'.status = 404) => (tfstate' = <<>> /\ last'.diag = "")
           /\ OtherFailure(last') => (last'.diag = "Client Error" /\ tfstate' = tfstate /\ tfstate' # <<>>)]_vars

\* C9: a Read was answered 404 for an overlay that was removed remotely, and
\* the resource is gone from state with no error.
C9_Witness ==
    /\ last.op = "Read"
    /\ last.kind = "http"
    /\ last.status = 404
    /\ last.diag = ""
    /\ tfstate = <<>>
    /\ reqs = <<<<"GET", "ov1">>>>

\* C10: a Delete reports an error exactly when it got no response or an
\* error status other than 404; answered 404, it completes with no error, so
\* Delete calls in a row on one identifier succeed.
C10_DeleteIdempotent ==
    last.op = "Delete"
        => /\ last.diag = (IF last.kind = "transport" \/ (last.status >= 400 /\ last.status # 404)
                           THEN "Client Error" ELSE "")
           /\ last.diag = "" => tfstate = <<>>

\* C10: the last of several Delete calls in a row on one identifier was
\* answered 404 and completed with no error.
C10_Witness ==
    /\ last.op = "Delete"
    /\ delRun = MaxDeleteRun
    /\ last.status = 404
    /\ last.diag = ""
    /\ tfstate = <<>>

\* ------------------------------------------------------------------------
\* Properties of ImportState
\* ------------------------------------------------------------------------

\* The tracked state that holds exactly the fields of the remote overlay o.
FieldsOf(o) ==
    [ID |-> Value(o.id), Name |-> Value(o.name), Description |-> Value(o.description),
     OrganizationID |-> Value(o.organizationId), Data |-> Value(o.data),
     CreatedBy |-> Value(o.createdBy), CreatedAt |-> Value(o.createdAt), UpdatedAt |-> Value(o.updatedAt)]

\* The string the last import was given.
Imported == reqs[1][2]

\* The remote holds an overlay with the name.
Named(rem, name) == \E i \in DOMAIN rem : Present(rem, i) /\ rem[i][1].name = name

\* The order of the two lookups, and when the import error is reported.
ImportLookups ==
    last.op = "ImportState"
        => /\ last.first = "found" => (reqs = <<<<"GET", Imported>>>> /\ last.diag = "")
           /\ last.first = "failed" => reqs = <<<<"GET", Imported>>, <<"LIST", "">>>>
           /\ last.diag = "Import Error"
                <=> (last.first = "failed" /\ ~(Carries(last) /\ Named(remote, Imported)))
           /\ last.diag = "" => tfstate # <<>>

\* C11: ImportState looks the string up as an identifier first and as a name
\* only when that fails, reports the import error only when both lookups
\* fail, and otherwise leaves in state the fields of the overlay found.
C11_ImportLookup ==
    /\ ImportLookups
    /\ (last.op = "ImportState" /\ last.diag = "") => tfstate[1] = FieldsOf(remote[managed[1]][1])

\* C11: the same, but for an overlay got by identifier in a bare response
\* when its data is an object with an "id" member.
C11_ImportExceptBareId ==
    /\ ImportLookups
    /\ (/\ last.op = "ImportState"
        /\ last.diag = ""
        /\ ~(/\ last.first = "found"
             /\ last.shape = "direct"
             /\ remote[managed[1]][1].data = DataId))
        => tfstate[1] = FieldsOf(remote[managed[1]][1])

\* C11: the identifier lookup failed, the name lookup found the overlay, and
\* its fields are in state.
C11_Witness ==
    /\ last.op = "ImportState"
    /\ last.first = "failed"
    /\ last.diag = ""
    /\ Imported = "n2"
    /\ tfstate # <<>>
    /\ tfstate[1] = FieldsOf(remote["ov1"][1])

\* ------------------------------------------------------------------------
\* Properties of Configure
\* ------------------------------------------------------------------------

\* What a setting resolves to: the explicit value when the block gives one,
\* else the environment variable; an explicit value not yet known or empty,
\* and a variable not set, are nothing ("").
Resolved(explicit, env) == IF IsNull(explicit) THEN env ELSE IF IsUnknown(explicit) THEN "" ELSE explicit[2]

\* C12: Configure resolves endpoint and credential each from the explicit
\* value when one is given and else from the environment variable; when
\* either resolves to nothing it reports an error and hands over no client,
\* and otherwise hands over a client with the two resolved settings.
C12_Configure ==
    conf.called =>
        LET url == Resolved(conf.data.APIURL, conf.envURL)
            tok == Resolved(conf.data.Token, conf.envToken)
        IN  /\ "Missing API URL" \in conf.diags <=> url = ""
            /\ "Missing Token" \in conf.diags <=> tok = ""
            /\ (url = "" \/ tok = "") => (conf.diags # {} /\ conf.client = <<>>)
            /\ (url # "" /\ tok # "") => (conf.diags = {} /\ conf.client = <<[APIURL |-> url, Token |-> tok]>>)

\* C12: endpoint given both ways, credential only in the environment: the
\* client has the explicit endpoint and the environment's credential.
C12_Witness ==
    /\ conf.called
    /\ conf.data.APIURL = Value("https://cfg")
    /\ conf.envURL = "https://env"
    /\ conf.data.Token = Null
    /\ conf.client = <<[APIURL |-> "https://cfg", Token |-> "env-token"]>>

\* ------------------------------------------------------------------------
\* Properties of the client's decoding
\* ------------------------------------------------------------------------

\* The CubeOverlay with the fields of the remote overlay o.
OverlayOf(o) ==
    [ID |-> o.id, Name |-> o.name, Description |-> o.description, OrganizationID |-> o.organizationId,
     Data |-> o.data, CreatedBy |-> o.createdBy, CreatedAt |-> o.createdAt, UpdatedAt |-> o.updatedAt]

\* C13: GetOverlay, CreateOverlay and UpdateOverlay return, for the overlay
\* answered bare and for the overlay answered in the envelope, the same
\* overlay without error: the one with the fields answered.
C13_BothShapes ==
    shp.called =>
        /\ shp.env = [err |-> NoError, overlay |-> OverlayOf(shp.o)]
        /\ shp.bare = shp.env

\* C13: the same for the envelope, and for the bare overlay when its data
\* blob is not a JSON object.
C13_ExceptBareObject ==
    shp.called =>
        /\ shp.env = [err |-> NoError, overlay |-> OverlayOf(shp.o)]
        /\ shp.o.data[1] # "obj" => shp.bare = shp.env

\* C13: GetOverlay returned the overlay, whose data is an array, from both
\* shapes.
C13_Witness ==
    /\ shp.called
    /\ shp.fn = "GetOverlay"
    /\ shp.o.data = Arr(<<Lit("1"), Lit("2")>>)
    /\ shp.bare = shp.env
    /\ shp.env.overlay = OverlayOf(shp.o)

\* ------------------------------------------------------------------------
\* Properties of ModifyPlan
\* ------------------------------------------------------------------------

\* Null or the empty string.
Empty(v) == v = Null \/ v = Value("")

\* Planned and state name are equal, the descriptions are equal or both
\* empty, and the data are JSON of the same value.
Unchanged(pl, st) ==
    /\ pl.Name = st.Name
    /\ pl.Description = st.Description \/ (Empty(pl.Description) /\ Empty(st.Description))
    /\ SameValue(ValueText(pl.Data), ValueText(st.Data))

\* The plan with organization_id, created_by, created_at, updated_at and
\* data taken from the state.
Preserved(pl, st) ==
    [pl EXCEPT !.OrganizationID = st.OrganizationID, !.CreatedBy = st.CreatedBy,
               !.CreatedAt = st.CreatedAt, !.UpdatedAt = st.UpdatedAt, !.Data = st.Data]

\* C14: for an existing resource ModifyPlan sets the five attributes of the
\* plan to the state's exactly when name, description and data are
\* unchanged; otherwise, and on create and destroy, it leaves the plan.
C14_ModifyPlan ==
    mp.called =>
        mp.out = IF mp.plan # <<>> /\ mp.state # <<>> /\ Unchanged(mp.plan[1], mp.state[1])
                 THEN <<Preserved(mp.plan[1], mp.state[1])>>
                 ELSE mp.plan

\* C14: the same when the planned description is not unknown.
C14_KnownDescription ==
    (mp.called /\ (mp.plan # <<>> => ~IsUnknown(mp.plan[1].Description))) =>
        mp.out = IF mp.plan # <<>> /\ mp.state # <<>> /\ Unchanged(mp.plan[1], mp.state[1])
                 THEN <<Preserved(mp.plan[1], mp.state[1])>>
                 ELSE mp.plan

\* C14: the description is null in state and "" in the plan, the data has
\* its keys in another order, and the plan got the state's values.
C14_Witness ==
    /\ mp.called
    /\ mp.state # <<>>
    /\ mp.plan # <<>>
    /\ mp.state[1].Description = Null
    /\ mp.plan[1].Description = Value("")
    /\ mp.plan[1].Data = Value(DataBA)
    /\ mp.out[1].Data = Value(DataAB)
    /\ mp.out[1].UpdatedAt = Value("t1")

\* ------------------------------------------------------------------------
\* Properties of Read's data, of failures, and of the id
\* ------------------------------------------------------------------------

\* What a successful Read must leave as data: the old text when the remote's
\* data has the same value, the remote's text otherwise; and planning any
\* configuration of the old text's value then plans the text in state.
ReadKeeps(old, new, rd) ==
    /\ new = IF SameValue(ValueText(old), rd) THEN old ELSE Value(rd)
    /\ \A c \in PlanDataDocs :
            (SameValue(c, ValueText(old)) /\ SameValue(c, rd))
                => PlanModifyString(new, Value(c), Value(c)) = new

\* C15: a successful Read leaves the data text in state as it was when the
\* remote overlay's data has the same value, and replaces it by the remote's
\* text otherwise; planning the unchanged configuration after it plans the
\* state's text.
C15_ReadData ==
    [][(last'.op = "Read" /\ last'.diag = "" /\ tfstate' # <<>>)
        => ReadKeeps(tfstate[1].Data, tfstate'[1].Data, remote[managed[1]][1].data)]_vars

\* C15: the same for the Reads answered in the envelope.
C15_ReadDataEnvelope ==
    [][(last'.op = "Read" /\ last'.diag = "" /\ tfstate' # <<>> /\ last'.shape = "envelope")
        => ReadKeeps(tfstate[1].Data, tfstate'[1].Data, remote[managed[1]][1].data)]_vars

\* C15: after a Read, the state holds the data with the keys as configured
\* while the remote holds them in another order.
C15_Witness ==
    /\ last.op = "Read"
    /\ last.diag = ""
    /\ last.shape = "envelope"
    /\ tfstate # <<>>
    /\ tfstate[1].Data = Value(DataAB)
    /\ remote[managed[1]][1].data = DataBA

\* The request of a call failed: no response, or an error status that the
\* handler does not take for not found.
Failed(l) ==
    \/ l.kind = "transport"
    \/ l.kind = "http" /\ l.status >= 400 /\ ~(l.status = 404 /\ l.op \in {"Read", "Delete"})

\* The message carries the status code and, at its end, the response body.
Carrying(err, status, text) ==
    /\ \E i \in 1..(Len(err) - Len(Digits(status)) + 1) : SubSeq(err, i, i + Len(Digits(status)) - 1) = Digits(status)
    /\ Len(err) >= Len(text)
    /\ SubSeq(err, Len(err) - Len(text) + 1, Len(err)) = text

\* C16: Create, Read, Update and Delete issue at most one request; when it
\* fails they report an error, which for an error status carries the status
\* code and the body, issue no second request, and leave the tracked state.
C16_OneRequestNoRetry ==
    [][last'.op \in {"Create", "Read", "Update", "Delete"}
        => /\ Len(reqs') <= 1
           /\ Failed(last') =>
                /\ last'.diag = "Client Error"
                /\ last'.err # NoError
                /\ last'.kind = "http" => Carrying(last'.err, last'.status, last'.text)
                /\ Len(reqs') = 1
                /\ tfstate' = tfstate]_vars

\* C16: an Update was answered 500 with a body, and the resource is still
\* tracked.
C16_Witness ==
    /\ last.op = "Update"
    /\ last.status = 500
    /\ last.text = NotFoundText
    /\ last.diag = "Client Error"
    /\ Len(reqs) = 1
    /\ tfstate # <<>>

\* Read and Update leave the id of the tracked state.
IdKept ==
    (last'.op \in {"Read", "Update"} /\ tfstate # <<>> /\ tfstate' # <<>>) => tfstate'[1].ID = tfstate[1].ID

\* C17: the id in tracked state is the identifier the remote assigned to the
\* overlay created or imported, and Read and Update never change it.
C17_IdFromRemote ==
    [][/\ tfstate' # <<>> => tfstate'[1].ID = Value(managed'[1])
       /\ IdKept]_vars

\* C17: the same, the first part for the creations and imports answered in
\* the envelope or found by name.
C17_IdFromEnvelope ==
    [][/\ (/\ last'.op \in {"Create", "ImportState"}
           /\ tfstate' # <<>>
           /\ last'.shape = "envelope" \/ last'.first = "failed")
            => tfstate'[1].ID = Value(managed'[1])
       /\ IdKept]_vars

\* C17: an Update completed and the state has the id the remote assigned.
C17_Witness ==
    /\ last.op = "Update"
    /\ last.diag = ""
    /\ tfstate # <<>>
    /\ tfstate[1].ID = Value("ov1")
    /\ tfstate[1].UpdatedAt = Value("t2")

\* ------------------------------------------------------------------------
\* The comparator as a relation
\* ------------------------------------------------------------------------

\* C18: jsonEqual gives the same for (a, b) and (b, a) whatever the texts,
\* and on texts that parse it is reflexive and transitive.
C18_Equivalence ==
    rel.called =>
        /\ rel.ab = rel.ba
        /\ UnmarshalOk(docA) => rel.aa
        /\ (UnmarshalOk(docA) /\ UnmarshalOk(docB) /\ UnmarshalOk(docC) /\ rel.ab /\ rel.bc) => rel.ac

\* C18: three different texts of one value, each equal to the next and the
\* first to the last.
C18_Witness ==
    /\ rel.called
    /\ docA = Obj(<<<<"a", Lit("1")>>>>)
    /\ docB = Obj(<<<<"a", Lit("1.0")>>>>)
    /\ docC = Obj(<<<<"a", Arr(<<Lit("1"), Lit("2")>>)>>, <<"a", Lit("1")>>>>)
    /\ rel.ab /\ rel.bc /\ rel.ac

====
